---- MODULE Spec2Model ----
(***************************************************************************)
(* A model of libini: the context-sensitive lexer (src/src/lexer.cpp), the *)
(* recursive-descent parser and the query surface of the parse result      *)
(* (src/include/parser.hpp).                                               *)
(*                                                                         *)
(* A character is a string of length one; a file, a name and a payload are *)
(* sequences of characters.  A token is a record [type, value]; the value  *)
(* of a punctuation token is the empty sequence.  The float payload of a   *)
(* Number token is kept as the canonical decimal text of the value stof    *)
(* returns (see stof below).                                                *)
(***************************************************************************)
EXTENDS Integers, Sequences, FiniteSets, TLC

(***************************************************************************)
(* Character classes: src/unnamed/part_000 (lexer.hpp), lines 51-62.       *)
(***************************************************************************)
is_whitespace(c) == c \in {" ", "\t"}

\* A comment character taken to be the semicolon.
is_comment_semicolon(c) == c = ";"

is_comment(c) == c = "#"

is_eol(c) == c \in {"\n", "\r"}

is_numeric(c) == c \in {"0", "1", "2", "3", "4", "5", "6", "7", "8", "9"}

is_whitespace_or_eol(c) == is_eol(c) \/ is_whitespace(c)

(***************************************************************************)
(* The delimiter predicate of the lexer is a std::function<bool(char)>.    *)
(* It only ever holds one of six closures, named here by a tag:            *)
(*   "none"    [](char){return false;}          read_all, line 54          *)
(*   "rbrace"  make_predicate(']')              next_token, line 128       *)
(*   "ws"      is_whitespace                    lines 132, 142, 155        *)
(*   "dq"      make_predicate('"')              line 139                   *)
(*   "sq"      make_predicate('\'')             line 150                   *)
(*   "eol"     is_eol                           line 176                   *)
(* and read_number composes a seventh, "number" (line 216).                *)
(***************************************************************************)
Delimiters == {"none", "rbrace", "ws", "dq", "sq", "eol"}

\* The predicates with the single-quote delimiter testing the double quote.
make_predicate_dq_for_sq(d, c) ==
    CASE d = "none"   -> FALSE
      [] d = "rbrace" -> c = "]"
      [] d = "ws"     -> is_whitespace(c)
      [] d = "dq"     -> c = "\""
      [] d = "sq"     -> c = "\""
      [] d = "eol"    -> is_eol(c)
      [] d = "number" -> is_eol(c) \/ is_whitespace(c) \/ ~is_numeric(c)

make_predicate(d, c) ==
    CASE d = "none"   -> FALSE
      [] d = "rbrace" -> c = "]"
      [] d = "ws"     -> is_whitespace(c)
      [] d = "dq"     -> c = "\""
      [] d = "sq"     -> c = "'"
      [] d = "eol"    -> is_eol(c)
      [] d = "number" -> is_eol(c) \/ is_whitespace(c) \/ ~is_numeric(c)

(***************************************************************************)
(* Tokens: the alternatives of IniVariant and their std::variant index.    *)
(***************************************************************************)
TokenTypes == {"LBrace", "RBrace", "Equals", "DoubleQuote", "SingleQuote",
               "Section", "Identifier", "String", "Number", "Null", "EndOfFile"}

Tok(t, v) == [type |-> t, value |-> v]

IniLBrace == Tok("LBrace", <<>>)

IniRBrace == Tok("RBrace", <<>>)

IniEquals == Tok("Equals", <<>>)

IniDoubleQuote == Tok("DoubleQuote", <<>>)

IniSingleQuote == Tok("SingleQuote", <<>>)

IniNull == Tok("Null", <<>>)

IniSection(name) == Tok("Section", name)

IniIdentifier(name) == Tok("Identifier", name)

IniString(text) == Tok("String", text)

IniNumber(f) == Tok("Number", f)

\* std::variant<IniSection, IniNumber, IniString, IniIdentifier, IniNull,
\*              IniLBrace, IniRBrace, IniEquals, IniDoubleQuote, IniSingleQuote>
index(tok) ==
    CASE tok.type = "Section"     -> 0
      [] tok.type = "Number"      -> 1
      [] tok.type = "String"      -> 2
      [] tok.type = "Identifier"  -> 3
      [] tok.type = "Null"        -> 4
      [] tok.type = "LBrace"      -> 5
      [] tok.type = "RBrace"      -> 6
      [] tok.type = "Equals"      -> 7
      [] tok.type = "DoubleQuote" -> 8
      [] tok.type = "SingleQuote" -> 9

(***************************************************************************)
(* The istream_iterator over the file is the position fiter in 1..Len+1;   *)
(* fiter = Len(f)+1 is the end-of-stream iterator.  Reading through the    *)
(* end-of-stream iterator is undefined: it yields ev, a value the caller   *)
(* chooses among EosValues.  Incrementing it leaves it at end of stream.   *)
(***************************************************************************)
AtEos(f, i) == i > Len(f)

Deref(f, i, ev) == IF AtEos(f, i) THEN ev ELSE f[i]

Incr(f, i) == IF AtEos(f, i) THEN i ELSE i + 1

\* skip_comment: advance to the first end-of-line character or to the end.
RECURSIVE skip_comment(_, _)
skip_comment(f, i) ==
    IF AtEos(f, i) THEN i
    ELSE IF is_eol(f[i]) THEN i
    ELSE skip_comment(f, i + 1)

\* read_name: accumulate characters until the delimiter holds or the input
\* ends (is_ignorable is the default [](char){return false;}).
RECURSIVE read_name(_, _, _)
read_name(f, i, delimiter) ==
    IF AtEos(f, i) \/ make_predicate(delimiter, f[i])
    THEN [name |-> <<>>, fiter |-> i]
    ELSE LET rest == read_name(f, i + 1, delimiter)
         IN  [name |-> <<f[i]>> \o rest.name, fiter |-> rest.fiter]

\* read_number without the fraction.
read_number_integer_only(f, i, ev) == read_name(f, i, "number")

\* read_number: the digit run, and after a '.', the '.' and the next run.
read_number(f, i, ev) ==
    LET integer_part == read_name(f, i, "number")
    IN  IF Deref(f, integer_part.fiter, ev) = "."
        THEN LET float_part == read_name(f, Incr(f, integer_part.fiter), "number")
             IN  [name  |-> integer_part.name \o <<".">> \o float_part.name,
                  fiter |-> float_part.fiter]
        ELSE integer_part

(***************************************************************************)
(* std::stof on the text read_number returns (digits, or digits '.'        *)
(* digits): the value is kept as its canonical decimal text, without       *)
(* leading zeros of the integer part, without trailing zeros of the        *)
(* fraction and without a '.' before an empty fraction, so that "42",      *)
(* "42." and "42.0" convert to the same value.  The model's literals have  *)
(* fewer significant digits than a float holds exactly apart.              *)
(***************************************************************************)
RECURSIVE StripLeadingZeros(_)
StripLeadingZeros(s) ==
    IF Len(s) > 1 /\ Head(s) = "0" THEN StripLeadingZeros(Tail(s)) ELSE s

RECURSIVE StripTrailingZeros(_)
StripTrailingZeros(s) ==
    IF Len(s) > 0 /\ s[Len(s)] = "0"
    THEN StripTrailingZeros(SubSeq(s, 1, Len(s) - 1))
    ELSE s

DotAt(s) ==
    IF \E k \in 1..Len(s) : s[k] = "."
    THEN CHOOSE k \in 1..Len(s) : s[k] = "." /\ \A j \in 1..(k - 1) : s[j] # "."
    ELSE Len(s) + 1

stof(text) ==
    LET k    == DotAt(text)
        int  == StripLeadingZeros(SubSeq(text, 1, k - 1))
        frac == StripTrailingZeros(SubSeq(text, k + 1, Len(text)))
    IN  IF frac = <<>> THEN int ELSE int \o <<".">> \o frac

(***************************************************************************)
(* next_token: skips whitespace, line ends and comments, then decides the  *)
(* kind of the next token from the kind of the previous one; it may        *)
(* replace the delimiter.  Returns the kind, the position and the          *)
(* delimiter.                                                              *)
(***************************************************************************)
NT(t, i, d) == [token |-> t, fiter |-> i, delimiter |-> d]

RECURSIVE next_token(_, _, _, _)
next_token(f, i, previous, delimiter) ==
    IF AtEos(f, i) THEN NT("EndOfFile", i, delimiter)
    ELSE LET next == f[i] IN
      IF is_whitespace_or_eol(next) THEN next_token(f, i + 1, previous, delimiter)
      ELSE IF is_comment(next)
           THEN next_token(f, skip_comment(f, i), previous, delimiter)
      ELSE CASE previous = "LBrace"  -> NT("Section", i, "rbrace")
             [] previous = "Section" -> NT("RBrace", i, "ws")
             [] previous = "DoubleQuote" ->
                    IF ~make_predicate(delimiter, "\"")
                    THEN NT("String", i, "dq")
                    ELSE NT("Identifier", i, "ws")
             [] previous = "SingleQuote" ->
                    IF ~make_predicate(delimiter, "'")
                    THEN NT("String", i, "sq")
                    ELSE IF next = "[" THEN NT("LBrace", i, delimiter)
                    ELSE NT("Identifier", i, "ws")
             [] previous = "String" ->
                    IF make_predicate(delimiter, "\"")
                    THEN NT("DoubleQuote", i, delimiter)
                    ELSE NT("SingleQuote", i, delimiter)
             [] previous = "Identifier" -> NT("Equals", i, delimiter)
             [] previous = "Equals" ->
                    IF is_numeric(next) THEN NT("Number", i, delimiter)
                    ELSE IF next = "'" THEN NT("SingleQuote", i, delimiter)
                    ELSE IF next = "\"" THEN NT("DoubleQuote", i, delimiter)
                    ELSE NT("Identifier", i, "eol")
             [] previous = "Null" -> NT("LBrace", i, delimiter)
             [] OTHER ->
                    IF next = "[" THEN NT("LBrace", i, delimiter)
                    ELSE NT("Identifier", i, delimiter)

(***************************************************************************)
(* One iteration of the generation loop of read_all (lines 56-94): the     *)
(* body for the current token kind, then the loop's step expression        *)
(* token = next_token(...).  The lexer state is [token, fiter, delimiter,  *)
(* tokens].                                                                *)
(***************************************************************************)
LexInit == [token |-> "Null", fiter |-> 1, delimiter |-> "none", tokens |-> <<>>]

\* The body of the loop with the LBrace case pushing without fiter++.
LexBodyNoAdvance(f, ls, ev) ==
    CASE ls.token = "LBrace" ->
           [fiter |-> ls.fiter, tokens |-> Append(ls.tokens, IniLBrace)]
      [] ls.token = "Section" ->
           LET r == read_name(f, ls.fiter, ls.delimiter)
           IN  [fiter |-> r.fiter, tokens |-> Append(ls.tokens, IniSection(r.name))]
      [] ls.token = "RBrace" ->
           [fiter |-> Incr(f, ls.fiter), tokens |-> Append(ls.tokens, IniRBrace)]
      [] ls.token = "SingleQuote" ->
           [fiter |-> Incr(f, ls.fiter), tokens |-> Append(ls.tokens, IniSingleQuote)]
      [] ls.token = "DoubleQuote" ->
           [fiter |-> Incr(f, ls.fiter), tokens |-> Append(ls.tokens, IniDoubleQuote)]
      [] ls.token = "String" ->
           LET r == read_name(f, ls.fiter, ls.delimiter)
           IN  [fiter |-> r.fiter, tokens |-> Append(ls.tokens, IniString(r.name))]
      [] ls.token = "Equals" ->
           [fiter |-> Incr(f, ls.fiter), tokens |-> Append(ls.tokens, IniEquals)]
      [] ls.token = "Identifier" ->
           LET r == read_name(f, ls.fiter, ls.delimiter)
           IN  [fiter |-> r.fiter, tokens |-> Append(ls.tokens, IniIdentifier(r.name))]
      [] ls.token = "Number" ->
           LET r == read_number(f, ls.fiter, ev)
           IN  [fiter |-> r.fiter, tokens |-> Append(ls.tokens, IniNumber(stof(r.name)))]
      [] OTHER -> [fiter |-> ls.fiter, tokens |-> ls.tokens]

LexBody(f, ls, ev) ==
    CASE ls.token = "LBrace" ->
           [fiter |-> Incr(f, ls.fiter), tokens |-> Append(ls.tokens, IniLBrace)]
      [] ls.token = "Section" ->
           LET r == read_name(f, ls.fiter, ls.delimiter)
           IN  [fiter |-> r.fiter, tokens |-> Append(ls.tokens, IniSection(r.name))]
      [] ls.token = "RBrace" ->
           [fiter |-> Incr(f, ls.fiter), tokens |-> Append(ls.tokens, IniRBrace)]
      [] ls.token = "SingleQuote" ->
           [fiter |-> Incr(f, ls.fiter), tokens |-> Append(ls.tokens, IniSingleQuote)]
      [] ls.token = "DoubleQuote" ->
           [fiter |-> Incr(f, ls.fiter), tokens |-> Append(ls.tokens, IniDoubleQuote)]
      [] ls.token = "String" ->
           LET r == read_name(f, ls.fiter, ls.delimiter)
           IN  [fiter |-> r.fiter, tokens |-> Append(ls.tokens, IniString(r.name))]
      [] ls.token = "Equals" ->
           [fiter |-> Incr(f, ls.fiter), tokens |-> Append(ls.tokens, IniEquals)]
      [] ls.token = "Identifier" ->
           LET r == read_name(f, ls.fiter, ls.delimiter)
           IN  [fiter |-> r.fiter, tokens |-> Append(ls.tokens, IniIdentifier(r.name))]
      [] ls.token = "Number" ->
           LET r == read_number(f, ls.fiter, ev)
           IN  [fiter |-> r.fiter, tokens |-> Append(ls.tokens, IniNumber(stof(r.name)))]
      [] OTHER -> [fiter |-> ls.fiter, tokens |-> ls.tokens]

\* A loop that hands next_token the initial kind instead of the kind of the
\* token just read.
LexIterNone(f, ls, ev) ==
    LET b == LexBody(f, ls, ev)
        n == next_token(f, b.fiter, "Null", ls.delimiter)
    IN  [token |-> n.token, fiter |-> n.fiter, delimiter |-> n.delimiter,
         tokens |-> b.tokens]

LexIter(f, ls, ev) ==
    LET b == LexBody(f, ls, ev)
        n == next_token(f, b.fiter, ls.token, ls.delimiter)
    IN  [token |-> n.token, fiter |-> n.fiter, delimiter |-> n.delimiter,
         tokens |-> b.tokens]

\* The whole loop: the token sequence tokenize() returns for the file f.
RECURSIVE read_all(_, _, _)
read_all(f, ls, ev) ==
    IF ls.token = "EndOfFile" THEN ls.tokens
    ELSE read_all(f, LexIter(f, ls, ev), ev)

tokenize(f, ev) == read_all(f, LexInit, ev)

(***************************************************************************)
(* The parser (src/include/parser.hpp).  tokens is the std::pmr::deque the *)
(* lexer returned; the parser pops its front as it goes.  Reading the      *)
(* element after the last one (the iterator past the end) is undefined:    *)
(* it yields oob, which the caller chooses among OobReads, either some     *)
(* variant or Crash (the read faults).                                     *)
(***************************************************************************)
Crash == Tok("Crash", <<>>)

Min(a, b) == IF a < b THEN a ELSE b

\* remove_head: pop up to limit tokens from the front (default limit 3).
remove_head(tokens, limit) ==
    SubSeq(tokens, Min(limit, Len(tokens)) + 1, Len(tokens))

At(tokens, k, oob) == IF k <= Len(tokens) THEN tokens[k] ELSE oob

IniParserTreeLeaf(name, container) == [name |-> name, container |-> container]

IniParserTreeNode(section) == [name |-> section.value, children |-> <<>>]

insert(node, child) == [node EXCEPT !.children = Append(@, child)]

\* parse_value with iter at position k of tokens.
parse_value(tokens, k, oob) ==
    LET type_index == index(tokens[k]) IN
    IF type_index >= 8
    THEN LET result == At(tokens, k + 1, oob)
         IN  IF result = Crash
             THEN [status |-> "crash", result |-> IniNull, tokens |-> tokens]
             ELSE [status |-> "ok", result |-> result,
                   tokens |-> remove_head(tokens, 3)]
    ELSE IF type_index = 1
    THEN [status |-> "ok", result |-> tokens[k], tokens |-> remove_head(tokens, 1)]
    ELSE [status |-> "throw", result |-> IniNull, tokens |-> tokens]

\* One invocation of parse_member, up to its recursive call: status is
\* "return" (it returns), "again" (it calls itself on the rest), "throw"
\* (std::bad_variant_access leaves it) or "crash".
parse_member(tokens, node, oob) ==
    LET stay(s) == [status |-> s, tokens |-> tokens, node |-> node] IN
    IF Len(tokens) < 3 THEN stay("return")
    ELSE IF index(tokens[1]) = 5 THEN stay("return")
    ELSE IF tokens[1].type # "Identifier" THEN stay("throw")
    ELSE IF tokens[2].type # "Equals" THEN stay("throw")
    ELSE LET value == parse_value(tokens, 3, oob) IN
         IF value.status # "ok" THEN stay(value.status)
         ELSE LET leaf == IniParserTreeLeaf(tokens[1].value, value.result)
                  rest == remove_head(value.tokens, 2)
              IN  [status |-> IF Len(rest) > 2 THEN "again" ELSE "return",
                   tokens |-> rest, node |-> insert(node, leaf)]

\* One invocation of parse_section, up to its call of parse_member: status
\* is "return" (no token left), "member" (a header was matched and the node
\* created), "throw" (std::runtime_error leaves it) or "crash".
parse_section(tokens, oob) ==
    LET stay(s) == [status |-> s, tokens |-> tokens, node |-> IniParserTreeNode(IniSection(<<>>))] IN
    IF Len(tokens) = 0 THEN stay("return")
    ELSE IF tokens[1].type # "LBrace" THEN stay("throw")
    ELSE LET section == At(tokens, 2, oob) IN
         IF section = Crash THEN stay("crash")
         ELSE IF section.type # "Section" THEN stay("throw")
         ELSE [status |-> "member", tokens |-> remove_head(tokens, 3),
               node |-> IniParserTreeNode(section)]

\* The handlers: parse_member rethrows the std::bad_variant_access it
\* catches (lines 258-260); parse_section turns a std::bad_variant_access
\* into its std::runtime_error and rethrows a std::runtime_error (lines
\* 287-291).  parse_member is called inside the try block of parse_section,
\* and each parse_section inside the try block of the one that called it.
catch_parse_member(ex) == ex

\* A handler that lets what it catches through as it is.
catch_parse_section_rethrow(ex) == ex

catch_parse_section(ex) ==
    IF ex = "bad_variant_access" THEN "runtime_error" ELSE ex

\* parse_member with its recursion.
RECURSIVE parse_member_all(_, _, _)
parse_member_all(tokens, node, oob) ==
    LET m == parse_member(tokens, node, oob)
    IN  IF m.status = "again" THEN parse_member_all(m.tokens, m.node, oob) ELSE m

\* parse_section with its recursion: what build_tree ends with.  status is
\* "ok" (roots is returned), "error" (std::runtime_error is thrown and
\* roots is destroyed) or "crash".
RECURSIVE parse_section_all(_, _, _)
parse_section_all(tokens, roots, oob) ==
    LET s == parse_section(tokens, oob) IN
    CASE s.status = "return" -> [status |-> "ok", roots |-> roots]
      [] s.status = "throw"  -> [status |-> "error", roots |-> <<>>]
      [] s.status = "crash"  -> [status |-> "crash", roots |-> <<>>]
      [] OTHER ->
           LET m == parse_member_all(s.tokens, s.node, oob) IN
           CASE m.status = "throw" -> [status |-> "error", roots |-> <<>>]
             [] m.status = "crash" -> [status |-> "crash", roots |-> <<>>]
             [] OTHER -> parse_section_all(m.tokens, Append(roots, m.node), oob)

\* build_tree, and parse() which wraps its roots in an IniParserResult.
build_tree(f, ev, oob) == parse_section_all(tokenize(f, ev), <<>>, oob)

(***************************************************************************)
(* The query surface of IniParserTreeNode and IniParserResult.  A lookup   *)
(* returns [found, leaf]; found = FALSE stands for the std::runtime_error  *)
(* "member not found".                                                     *)
(***************************************************************************)
NotFound == [found |-> FALSE, leaf |-> IniParserTreeLeaf(<<>>, IniNull)]

Found(leaf) == [found |-> TRUE, leaf |-> leaf]

RECURSIVE FirstChild(_, _, _)
FirstChild(children, name, i) ==
    IF i > Len(children) THEN NotFound
    ELSE IF children[i].name = name THEN Found(children[i])
    ELSE FirstChild(children, name, i + 1)

\* A lookup in which a later leaf of the same name overrides an earlier one.
RECURSIVE LastChild(_, _, _)
LastChild(children, name, i) ==
    IF i < 1 THEN NotFound
    ELSE IF children[i].name = name THEN Found(children[i])
    ELSE LastChild(children, name, i - 1)

node_lookup_last(node, name) == LastChild(node.children, name, Len(node.children))

\* IniParserTreeNode::operator[]
node_lookup(node, name) == FirstChild(node.children, name, 1)

\* IniParserTreeNode::has_member
node_has_member(node, name) ==
    \E i \in 1..Len(node.children) : node.children[i].name = name

\* A has_member that looks into the first section only.
has_member_first_section(roots, name) ==
    Len(roots) > 0 /\ node_has_member(roots[1], name)

\* IniParserResult::has_member
has_member(roots, name) ==
    \E n \in 1..Len(roots) : node_has_member(roots[n], name)

\* IniParserResult::operator[]
RECURSIVE FirstNode(_, _, _)
FirstNode(roots, name, n) ==
    IF n > Len(roots) THEN NotFound
    ELSE LET child == node_lookup(roots[n], name)
         IN  IF child.found THEN child ELSE FirstNode(roots, name, n + 1)

lookup(roots, name) == FirstNode(roots, name, 1)

\* IniContainer::get_value<T>: std::get<T>(value_).token_value
container_get_value(container, T) ==
    IF container.type = T
    THEN [status |-> "ok", value |-> container.value]
    ELSE [status |-> "bad_variant_access", value |-> <<>>]

\* IniParserResult::get_value<T>(name)
get_value(roots, name, T) ==
    LET child == lookup(roots, name)
    IN  IF child.found THEN container_get_value(child.leaf.container, T)
        ELSE [status |-> "member_not_found", value |-> <<>>]

(***************************************************************************)
(* The files the parser is run on.  A file is written as a sequence of     *)
(* lines joined by a line feed; a line is a section header, a member or a  *)
(* raw piece of text, [kind, name, val, style]:                            *)
(*   header  [name] (style "closed") or [name (style "open")               *)
(*   member  name = val (style "spaced") or name=val (style "nospace")     *)
(*   raw     the characters of name, as they are                           *)
(* and a value is [kind, text, quote]: a Number literal, a String in       *)
(* double ("dq") or single ("sq") quotes, or a bare Identifier.            *)
(***************************************************************************)
MaxSections == 2

MaxMembers == 2

SectionNames == {<<"s">>, <<"t">>}

Keys == {<<"a">>, <<"b">>}

Num(text) == [kind |-> "Number", text |-> text, quote |-> "none"]

Str(text, quote) == [kind |-> "String", text |-> text, quote |-> quote]

Bare(text) == [kind |-> "Identifier", text |-> text, quote |-> "none"]

NoValue == [kind |-> "none", text |-> <<>>, quote |-> "none"]

Header(name, style) == [kind |-> "header", name |-> name, val |-> NoValue, style |-> style]

Member(key, val, style) == [kind |-> "member", name |-> key, val |-> val, style |-> style]

Raw(text) == [kind |-> "raw", name |-> text, val |-> NoValue, style |-> "raw"]

BaseValues == {Num(<<"1">>), Str(<<"x">>, "sq"), Str(<<"x">>, "dq")}

SpecialValues == {Str(<<" ", "x">>, "dq"), Bare(<<"y", "e", "s">>), Num(<<"2", ".", "5">>)}

RegularHeaders == {Header(n, "closed") : n \in SectionNames}

RegularMembers == {Member(k, v, "spaced") : k \in Keys, v \in BaseValues}

RegularLines == RegularHeaders \cup RegularMembers

CountKind(d, kind) == Cardinality({i \in 1..Len(d) : d[i].kind = kind})

\* Closed headers and spaced members with base values: at most MaxSections
\* sections, at most MaxMembers members in all, a header first.
RegularDocs ==
    {d \in UNION {[1..n -> RegularLines] : n \in 0..(MaxSections + MaxMembers)} :
        /\ Len(d) > 0 => d[1].kind = "header"
        /\ CountKind(d, "header") <= MaxSections
        /\ CountKind(d, "member") <= MaxMembers}

OneMore == {<<>>} \cup {<<l>> : l \in RegularLines}

\* K=V without whitespace around the equals sign.
NoSpaceDocs ==
    {<<Header(<<"s">>, "closed"), Member(k, v, "nospace")>> :
        k \in Keys, v \in BaseValues \cup {Bare(<<"y", "e", "s">>)}}

\* A member whose value is a string with a leading space, a bare identifier
\* or a number with a fraction, alone or followed by one more line.
SpecialValueDocs ==
    {<<Header(<<"s">>, "closed"), Member(<<"a">>, v, "spaced")>> \o more :
        v \in SpecialValues, more \in OneMore}

\* A section header without its closing bracket.
OpenHeaderDocs ==
    {pre \o <<Header(n, "open")>> \o more :
        pre \in {<<>>, <<Header(<<"s">>, "closed")>>},
        n \in SectionNames,
        more \in OneMore \cup {<<Member(<<"a">>, Num(<<"1">>), "nospace")>>}}

\* Files that end in the middle of a header or of a quoted value.
TruncatedDocs ==
    {pre \o <<Raw(t)>> :
        pre \in {<<>>, <<Header(<<"s">>, "closed")>>,
                 <<Header(<<"s">>, "closed"), Member(<<"a">>, Num(<<"1">>), "spaced")>>},
        t \in {<<"[">>, <<"a", " ", "=", " ", "\"">>, <<"a", " ", "=", " ", "'">>}}

\* Files that end inside a quoted string: the quote is opened, the text
\* begun, the closing quote missing.
OpenStringDocs ==
    {pre \o <<Raw(<<"a", " ", "=", " ", q, "x">>)>> :
        pre \in {<<Header(<<"s">>, "closed")>>,
                 <<Header(<<"s">>, "closed"), Member(<<"a">>, Num(<<"1">>), "spaced")>>},
        q \in {"\"", "'"}}

\* Files made only of whitespace, line ends and comments: one or two blank
\* pieces, with or without a last comment that the end of the file ends.
BlankPieces ==
    {<<" ">>, <<"\t">>, <<"\n">>, <<"\r", "\n">>, <<"#", "c", "\n">>,
     <<"#", "[", "s", "]", " ", "a", " ", "=", " ", "1", "\n">>}

BlankDocs ==
    {<<Raw(p \o q \o last)>> :
        p \in BlankPieces, q \in BlankPieces \cup {<<>>},
        last \in {<<>>, <<"#">>, <<"#", "c">>}}

Docs == RegularDocs \cup NoSpaceDocs \cup SpecialValueDocs \cup OpenHeaderDocs
            \cup TruncatedDocs \cup OpenStringDocs \cup BlankDocs

\* The regular files of at most MaxShortLines lines, for the runs that make
\* more than one call on a parser.
MaxShortLines == 2

ShortDocs ==
    {d \in UNION {[1..n -> RegularLines] : n \in 0..MaxShortLines} :
        Len(d) > 0 => d[1].kind = "header"}

QuoteChar(q) == IF q = "dq" THEN "\"" ELSE "'"

RenderValue(v) ==
    IF v.kind = "String"
    THEN <<QuoteChar(v.quote)>> \o v.text \o <<QuoteChar(v.quote)>>
    ELSE v.text

RenderLine(l) ==
    CASE l.kind = "header" ->
           <<"[">> \o l.name \o (IF l.style = "closed" THEN <<"]">> ELSE <<>>)
      [] l.kind = "member" ->
           l.name \o (IF l.style = "spaced" THEN <<" ", "=", " ">> ELSE <<"=">>)
                  \o RenderValue(l.val)
      [] OTHER -> l.name

RECURSIVE Render(_)
Render(d) ==
    IF Len(d) = 0 THEN <<>>
    ELSE IF Len(d) = 1 THEN RenderLine(d[1])
    ELSE RenderLine(d[1]) \o <<"\n">> \o Render(Tail(d))

\* What reading through the end-of-stream iterator may yield.  The only such
\* read whose value is used is the one of read_number, line 219, after
\* read_name ran to the end of the input over a run of digits.  The library
\* is built without debug checks (SConstruct: -std=c++20 -O3), and the
\* iterator of libstdc++ then returns the character it holds, the last one
\* it read: a digit of the run, which digit depending on the file.
EosValues == {"0", "9"}

\* What reading past the last token may yield.
OobReads == {Crash, IniNull, IniSection(<<>>), IniString(<<>>)}

\* The names a caller queries the result with.
QueryNames == Keys

\* The ParsableToken types: those with a token_value.
ValueTypes == {"Section", "Number", "String", "Identifier"}

(***************************************************************************)
(* The state.                                                              *)
(***************************************************************************)
VARIABLES
    doc,          \* the lines the file was written from
    file,         \* the characters of the file named file_name_
    stream_open,  \* IniLexer::stream_.is_open()
    pc,           \* where the running parse() is
    call,         \* "none", "sync" (parse) or "async" (parse_async)
    token,        \* read_all: the loop variable token
    fiter,        \* read_all: the stream iterator
    delimiter,    \* read_all: the delimiter predicate
    tokens,       \* the token deque, filled by read_all, popped by the parser
    roots,        \* build_tree: roots
    node,         \* parse_section: node
    future,       \* the shared state of the promise of parse_async
    exception,    \* the exception in flight out of parse(), or "none"
    result,       \* what the caller got: a value (IniParserResult) or an error
    history,      \* what the calls completed so far on this parser delivered
    query,        \* the last query on the result and its answers
    race          \* two overlapping calls of read_all on one lexer (see below)

vars == <<doc, file, stream_open, pc, call, token, fiter, delimiter, tokens,
          roots, node, future, exception, result, history, query, race>>

lexer_vars == <<token, fiter, delimiter, tokens>>

NoNode == IniParserTreeNode(IniSection(<<>>))

NoResult == [status |-> "none", roots |-> <<>>]

NoQuery == [name |-> <<>>, T |-> "none", has_member |-> FALSE,
            lookup |-> NotFound, get_value |-> [status |-> "none", value |-> <<>>]]

\* No call is running on the race's lexer: the stream is closed, both
\* threads are still to call read_all.
RaceIdle ==
    [pc |-> "idle", token |-> "Null", value |-> "", eos |-> TRUE,
     delimiter |-> "none", tokens |-> <<>>, overlapped |-> FALSE]

RaceInit == [open |-> FALSE, pos |-> 1, th |-> <<RaceIdle, RaceIdle>>]

\* A parser constructed on the file of doc: nothing opened, nothing called.
Constructed ==
    /\ file = Render(doc)
    /\ stream_open = FALSE
    /\ pc = "idle"
    /\ call = "none"
    /\ token = "Null"
    /\ fiter = 1
    /\ delimiter = "none"
    /\ tokens = <<>>
    /\ roots = <<>>
    /\ node = NoNode
    /\ future = "none"
    /\ exception = "none"
    /\ result = NoResult
    /\ history = <<>>
    /\ query = NoQuery
    /\ race = RaceInit

Init == doc \in Docs /\ Constructed

\* IniParser::parse(), called by the caller: it runs build_tree.
Parse ==
    /\ pc = "idle"
    /\ pc' = "build_tree"
    /\ call' = "sync"
    /\ UNCHANGED <<race, exception, history, doc, file, stream_open, lexer_vars, roots, node, future,
                   result, query>>

\* IniParser::parse_async(): the promise, its future, and a detached thread
\* that runs parse().
ParseAsync ==
    /\ pc = "idle"
    /\ pc' = "build_tree"
    /\ call' = "async"
    /\ future' = "pending"
    /\ UNCHANGED <<race, exception, history, doc, file, stream_open, lexer_vars, roots, node, result, query>>

\* read_all, lines 44-54: open the stream if it is not open, which puts it at
\* the start of the file; the iterator is constructed on the stream where it
\* is, and the loop is set up.
ReadAllOpen ==
    /\ pc = "build_tree"
    /\ stream_open' = TRUE
    /\ token' = LexInit.token
    /\ fiter' = IF stream_open THEN Incr(file, fiter) ELSE LexInit.fiter
    /\ delimiter' = LexInit.delimiter
    /\ tokens' = LexInit.tokens
    /\ roots' = <<>>
    /\ pc' = "read_all"
    /\ UNCHANGED <<race, exception, history, doc, file, call, node, future, result, query>>

\* read_all, lines 56-94: one iteration of the generation loop.
LexStep ==
    /\ pc = "read_all"
    /\ token # "EndOfFile"
    /\ \E ev \in EosValues :
         LET ls == LexIter(file, [token |-> token, fiter |-> fiter,
                                  delimiter |-> delimiter, tokens |-> tokens], ev)
         IN  /\ token' = ls.token
             /\ fiter' = ls.fiter
             /\ delimiter' = ls.delimiter
             /\ tokens' = ls.tokens
    /\ UNCHANGED <<race, exception, history, doc, file, stream_open, pc, call, roots, node, future,
                   result, query>>

\* A read_all that returns without closing the stream.
ReadAllCloseLeaveOpen ==
    /\ pc = "read_all"
    /\ token = "EndOfFile"
    /\ pc' = "parse_section"
    /\ UNCHANGED <<race, exception, history, doc, file, stream_open, call, lexer_vars,
                   roots, node, future, result, query>>

\* read_all, line 98: the loop is over, close the stream; build_tree goes on
\* to parse_section.
ReadAllClose ==
    /\ pc = "read_all"
    /\ token = "EndOfFile"
    /\ stream_open' = FALSE
    /\ pc' = "parse_section"
    /\ UNCHANGED <<race, exception, history, doc, file, call, lexer_vars, roots, node, future, result, query>>

\* One invocation of parse_section up to its call of parse_member.
ParseSection ==
    /\ pc = "parse_section"
    /\ \E oob \in OobReads :
         LET s == parse_section(tokens, oob) IN
         /\ tokens' = s.tokens
         /\ node' = s.node
         /\ pc' = CASE s.status = "return" -> "built"
                    [] s.status = "member" -> "parse_member"
                    [] s.status = "throw"  -> "failed"
                    [] s.status = "crash"  -> "crashed"
         /\ exception' = IF s.status = "throw"
                          THEN catch_parse_section("bad_variant_access")
                          ELSE exception
    /\ UNCHANGED <<race, history, doc, file, stream_open, call, token, fiter, delimiter, roots,
                   future, result, query>>

\* One invocation of parse_member; when it returns, parse_section appends
\* the node to roots and calls itself.
ParseMember ==
    /\ pc = "parse_member"
    /\ \E oob \in OobReads :
         LET m == parse_member(tokens, node, oob) IN
         /\ tokens' = m.tokens
         /\ node' = IF m.status = "return" THEN NoNode ELSE m.node
         /\ roots' = IF m.status = "return" THEN Append(roots, m.node) ELSE roots
         /\ pc' = CASE m.status = "return" -> "parse_section"
                    [] m.status = "again"  -> "parse_member"
                    [] m.status = "throw"  -> "failed"
                    [] m.status = "crash"  -> "crashed"
         /\ exception' = IF m.status = "throw"
                          THEN catch_parse_section(catch_parse_member("bad_variant_access"))
                          ELSE exception
    /\ UNCHANGED <<race, history, doc, file, stream_open, call, token, fiter, delimiter,
                   future, result, query>>

\* parse() returns IniParserResult(roots) to its caller.
Return ==
    /\ pc = "built"
    /\ call = "sync"
    /\ result' = [status |-> "value", roots |-> roots]
    /\ history' = Append(history, result')
    /\ pc' = "returned"
    /\ UNCHANGED <<race, exception, doc, file, stream_open, call, lexer_vars, roots, node, future, query>>

\* The exception that left parse_section reaches the caller of parse().
Throw ==
    /\ pc = "failed"
    /\ call = "sync"
    /\ result' = [status |-> exception, roots |-> <<>>]
    /\ history' = Append(history, result')
    /\ roots' = <<>>
    /\ pc' = "threw"
    /\ UNCHANGED <<race, exception, doc, file, stream_open, call, lexer_vars, node, future, query>>

\* The thread of parse_async: p.set_value(parse()).
SetValue ==
    /\ pc = "built"
    /\ call = "async"
    /\ future = "pending"
    /\ future' = "ready"
    /\ pc' = "thread_done"
    /\ UNCHANGED <<race, exception, history, doc, file, stream_open, call, lexer_vars, roots, node, result, query>>

\* The thread of parse_async: the exception of parse() leaves the thread's
\* function, nothing catches it, std::terminate ends the process.
Terminate ==
    /\ pc = "failed"
    /\ call = "async"
    /\ pc' = "terminated"
    /\ roots' = <<>>
    /\ UNCHANGED <<race, exception, history, doc, file, stream_open, call, lexer_vars, node, future, result, query>>

\* A get() that hands out a result constructed empty instead of the one the
\* thread stored.
FutureGetEmpty ==
    /\ call = "async"
    /\ future = "ready"
    /\ future' = "retrieved"
    /\ result' = [status |-> "value", roots |-> <<>>]
    /\ history' = Append(history, result')
    /\ pc' = "returned"
    /\ UNCHANGED <<race, exception, doc, file, stream_open, call, lexer_vars, roots, node, query>>

\* The caller of parse_async: future.get() once the shared state is ready.
FutureGet ==
    /\ call = "async"
    /\ future = "ready"
    /\ future' = "retrieved"
    /\ result' = [status |-> "value", roots |-> roots]
    /\ history' = Append(history, result')
    /\ pc' = "returned"
    /\ UNCHANGED <<race, exception, doc, file, stream_open, call, lexer_vars, roots, node, query>>

\* The caller queries the result: has_member(name), result[name] and
\* get_value<T>(name).
Query ==
    /\ pc = "returned"
    /\ result.status = "value"
    /\ \E name \in QueryNames, T \in ValueTypes :
         query' = [name |-> name, T |-> T,
                   has_member |-> has_member(result.roots, name),
                   lookup |-> lookup(result.roots, name),
                   get_value |-> get_value(result.roots, name, T)]
    /\ UNCHANGED <<race, exception, history, doc, file, stream_open, pc, call, lexer_vars, roots, node,
                   future, result>>

Next ==
    \/ Parse
    \/ ReadAllOpen
    \/ LexStep
    \/ ReadAllClose
    \/ ParseSection
    \/ ParseMember
    \/ Return
    \/ Throw
    \/ Query

Spec == Init /\ [][Next]_vars

NextAsync ==
    \/ ParseAsync
    \/ ReadAllOpen
    \/ LexStep
    \/ ReadAllClose
    \/ ParseSection
    \/ ParseMember
    \/ SetValue
    \/ Terminate
    \/ FutureGet
    \/ Query

SpecAsync == Init /\ [][NextAsync]_vars

\* parse_async() and get() on its future, without the queries that may
\* follow on the result, on the regular files of at most MaxGetLines lines
\* and on the files of the other families.
MaxGetLines == 4

GetDocs ==
    {d \in UNION {[1..n -> RegularLines] : n \in 0..MaxGetLines} :
        Len(d) > 0 => d[1].kind = "header"}
      \cup NoSpaceDocs \cup SpecialValueDocs \cup OpenHeaderDocs
      \cup TruncatedDocs \cup OpenStringDocs \cup BlankDocs

InitGet == doc \in GetDocs /\ Constructed

NextGet ==
    \/ ParseAsync
    \/ ReadAllOpen
    \/ LexStep
    \/ ReadAllClose
    \/ ParseSection
    \/ ParseMember
    \/ SetValue
    \/ Terminate
    \/ FutureGet

SpecGet == InitGet /\ [][NextGet]_vars

(***************************************************************************)
(* The lexer on its own, on any input: read_all on a file that begins as a *)
(* well-formed file does (nothing, a header, a member up to its value, an  *)
(* opened string, a digit) and goes on with up to MaxTail characters of    *)
(* any kind.                                                               *)
(***************************************************************************)
MaxTail == 3

LexAlphabet == {"[", "]", "=", "\"", "'", "a", "1", ".", " ", "\n", "#"}

LexPrefixes ==
    {<<>>,
     <<"[", "s", "]">>,
     <<"[", "s", "]", "\n", "a", " ", "=", " ">>,
     <<"[", "s", "]", "\n", "a", " ", "=", " ", "\"">>,
     <<"[", "s", "]", "\n", "a", " ", "=", " ", "'">>,
     <<"[", "s", "]", "\n", "a", " ", "=", " ", "2">>}

LexDocs ==
    {<<Raw(p \o t)>> : p \in LexPrefixes,
                       t \in UNION {[1..n -> LexAlphabet] : n \in 0..MaxTail}}

InitLex ==
    /\ doc \in LexDocs
    /\ file = Render(doc)
    /\ stream_open = FALSE
    /\ pc = "build_tree"
    /\ call = "sync"
    /\ token = "Null"
    /\ fiter = 1
    /\ delimiter = "none"
    /\ tokens = <<>>
    /\ roots = <<>>
    /\ node = NoNode
    /\ future = "none"
    /\ exception = "none"
    /\ result = NoResult
    /\ history = <<>>
    /\ query = NoQuery
    /\ race = RaceInit

NextLex ==
    \/ ReadAllOpen
    \/ LexStep
    \/ ReadAllClose

SpecLex == InitLex /\ [][NextLex]_vars

(***************************************************************************)
(* Calls one after the other on one parser, as in example.cpp: once a call *)
(* has returned or thrown, the caller makes the next one, parse() or       *)
(* parse_async() followed by get(), up to MaxCalls calls on a file that    *)
(* does not change.  The locals of the call before are gone; the lexer and *)
(* its stream are the same.                                                *)
(***************************************************************************)
MaxCalls == 3

ParseNext ==
    /\ pc \in {"returned", "threw"}
    /\ Len(history) < MaxCalls
    /\ pc' = "build_tree"
    /\ call' = "sync"
    /\ future' = "none"
    /\ exception' = "none"
    /\ node' = NoNode
    /\ result' = NoResult
    /\ query' = NoQuery
    /\ UNCHANGED <<race, history, doc, file, stream_open, lexer_vars, roots>>

ParseAsyncNext ==
    /\ pc \in {"returned", "threw"}
    /\ Len(history) < MaxCalls
    /\ pc' = "build_tree"
    /\ call' = "async"
    /\ future' = "pending"
    /\ exception' = "none"
    /\ node' = NoNode
    /\ result' = NoResult
    /\ query' = NoQuery
    /\ UNCHANGED <<race, history, doc, file, stream_open, lexer_vars, roots>>

\* Files whose parse reads no token past the end: regular ones, and ones
\* parse() throws on.
SeqDocs == ShortDocs \cup NoSpaceDocs

InitSeq == doc \in SeqDocs /\ Constructed

NextSeq ==
    \/ Parse
    \/ ParseAsync
    \/ ParseNext
    \/ ParseAsyncNext
    \/ ReadAllOpen
    \/ LexStep
    \/ ReadAllClose
    \/ ParseSection
    \/ ParseMember
    \/ Return
    \/ Throw
    \/ SetValue
    \/ Terminate
    \/ FutureGet

SpecSeq == InitSeq /\ [][NextSeq]_vars

(***************************************************************************)
(* Two calls of read_all that overlap on one lexer, as when parse_async()  *)
(* is followed by parse() or by a second parse_async() on the same parser: *)
(* each call has its own locals (token, fiter, delimiter, tokens) and both *)
(* use the one std::ifstream stream_ of the lexer.  The stream is          *)
(* race.open and race.pos, the position of the next character it delivers. *)
(* An istream_iterator holds the character it read last (value) or is at   *)
(* end of stream (eos): it is constructed by reading one character, each   *)
(* increment reads one more, and a read that fails (end of file, stream    *)
(* closed) puts it at end of stream.  The calls interleave between loop    *)
(* iterations.                                                             *)
(***************************************************************************)
call_vars == <<doc, file, stream_open, pc, call, token, fiter, delimiter, tokens,
               roots, node, future, exception, result, history, query>>

Other(t) == 3 - t

\* What the call t would read from here on if it ran alone: the character
\* its iterator holds, then what the stream has left.
RaceView(t) ==
    IF race.th[t].eos THEN <<>>
    ELSE <<race.th[t].value>>
           \o (IF race.open THEN SubSeq(file, race.pos, Len(file)) ELSE <<>>)

\* read_all, lines 44-54, in call t.
RaceOpen(t) ==
    /\ race.th[t].pc = "idle"
    /\ LET pos0  == IF race.open THEN race.pos ELSE 1
           has   == pos0 <= Len(file)
           meets == race.th[Other(t)].pc = "read_all"
       IN  race' = [open |-> TRUE,
                    pos  |-> IF has THEN pos0 + 1 ELSE pos0,
                    th   |-> [race.th EXCEPT
                                ![t] = [pc |-> "read_all", token |-> LexInit.token,
                                        value |-> IF has THEN file[pos0] ELSE "",
                                        eos |-> ~has,
                                        delimiter |-> LexInit.delimiter,
                                        tokens |-> LexInit.tokens,
                                        overlapped |-> meets],
                                ![Other(t)] = [@ EXCEPT !.overlapped = @ \/ meets]]]
    /\ UNCHANGED call_vars

\* read_all, lines 56-94, in call t: one iteration of the loop, on what the
\* call reads from the stream as it is now.
RaceStep(t) ==
    /\ race.th[t].pc = "read_all"
    /\ race.th[t].token # "EndOfFile"
    /\ \E ev \in EosValues :
         LET view == RaceView(t)
             ls   == LexIter(view, [token |-> race.th[t].token, fiter |-> 1,
                                    delimiter |-> race.th[t].delimiter,
                                    tokens |-> race.th[t].tokens], ev)
             end  == ls.fiter > Len(view)
         IN  race' = [race EXCEPT
                        !.pos = IF race.open
                                THEN Min(race.pos + ls.fiter - 1, Len(file) + 1)
                                ELSE race.pos,
                        !.th[t] = [@ EXCEPT !.token = ls.token,
                                            !.value = IF end THEN "" ELSE view[ls.fiter],
                                            !.eos = end,
                                            !.delimiter = ls.delimiter,
                                            !.tokens = ls.tokens]]
    /\ UNCHANGED call_vars

\* A read_all that returns without closing the stream.
RaceCloseLeaveOpen(t) ==
    /\ race.th[t].pc = "read_all"
    /\ race.th[t].token = "EndOfFile"
    /\ race' = [race EXCEPT !.th[t].pc = "done"]
    /\ UNCHANGED call_vars

\* read_all, line 98, in call t: the loop is over, close the stream.
RaceClose(t) ==
    /\ race.th[t].pc = "read_all"
    /\ race.th[t].token = "EndOfFile"
    /\ race' = [race EXCEPT !.open = FALSE, !.th[t].pc = "done"]
    /\ UNCHANGED call_vars

InitRace == doc \in ShortDocs /\ Constructed

NextRace == \E t \in {1, 2} : RaceOpen(t) \/ RaceStep(t) \/ RaceClose(t)

SpecRace == InitRace /\ [][NextRace]_vars

(***************************************************************************)
(* The parser on its own: build_tree from the point where the lexer has    *)
(* returned, on token sequences of every shape, not only those the lexer   *)
(* produces: a well-formed beginning followed by up to MaxTokens tokens of *)
(* any kind.                                                               *)
(***************************************************************************)
MaxTokens == 3

TokenAlphabet ==
    {IniLBrace, IniRBrace, IniEquals, IniDoubleQuote, IniSingleQuote,
     IniSection(<<"s">>), IniIdentifier(<<"a">>), IniString(<<"x">>),
     IniNumber(<<"1">>)}

TokenPrefixes ==
    {<<>>,
     <<IniLBrace, IniSection(<<"s">>), IniRBrace>>,
     <<IniLBrace, IniSection(<<"s">>), IniRBrace,
       IniIdentifier(<<"b">>), IniEquals, IniNumber(<<"2">>)>>}

TokenSeqs ==
    {p \o t : p \in TokenPrefixes,
              t \in UNION {[1..n -> TokenAlphabet] : n \in 0..MaxTokens}}

InitParser ==
    /\ doc = <<>>
    /\ file = <<>>
    /\ stream_open = FALSE
    /\ pc = "parse_section"
    /\ call = "sync"
    /\ token = "EndOfFile"
    /\ fiter = 1
    /\ delimiter = "none"
    /\ tokens \in TokenSeqs
    /\ roots = <<>>
    /\ node = NoNode
    /\ future = "none"
    /\ exception = "none"
    /\ result = NoResult
    /\ history = <<>>
    /\ query = NoQuery
    /\ race = RaceInit

NextParser ==
    \/ ParseSection
    \/ ParseMember
    \/ Return
    \/ Throw

SpecParser == InitParser /\ [][NextParser]_vars
(***************************************************************************)
(* What the claims are stated with.                                        *)
(***************************************************************************)
\* The call is over for its caller: a value, a parse error, or a crash.
Finished == pc \in {"returned", "threw", "crashed", "terminated"}

\* The payload a value stands for as it is written: the text between the
\* quotes, the text of the identifier, the decimal value of the number
\* (the number literals of the model are written in canonical form).
Written(v) ==
    CASE v.kind = "String" -> IniString(v.text)
      [] v.kind = "Number" -> IniNumber(v.text)
      [] OTHER             -> IniIdentifier(v.text)

\* The tree a file of headers and members stands for: one node per header,
\* in order, holding the members written up to the next header.
RECURSIVE ExpectedRoots(_)
ExpectedRoots(d) ==
    IF Len(d) = 0 THEN <<>>
    ELSE LET before == ExpectedRoots(SubSeq(d, 1, Len(d) - 1))
             l      == d[Len(d)]
         IN  IF l.kind = "header"
             THEN Append(before, [name |-> l.name, children |-> <<>>])
             ELSE [before EXCEPT ![Len(before)] =
                      insert(@, IniParserTreeLeaf(l.name, Written(l.val)))]

ReturnedExpected == pc = "returned" /\ result = [status |-> "value", roots |-> ExpectedRoots(doc)]

\* One closed header, then only spaced members whose values are numbers or
\* quoted strings.
C1_Doc(d) ==
    /\ Len(d) >= 1
    /\ d[1].kind = "header" /\ d[1].style = "closed"
    /\ \A i \in 2..Len(d) :
         /\ d[i].kind = "member" /\ d[i].style = "spaced"
         /\ d[i].val.kind \in {"Number", "String"}

\* C1: a file made of one header [S] and members written key = value, each
\* value a number or a quoted string, parses to exactly one section S whose
\* leaves are the members in file order, each holding String(text) or
\* Number(n).
C1_SectionOfMembers == (Finished /\ C1_Doc(doc)) => ReturnedExpected

\* C1, for the quoted strings whose text does not begin with whitespace (the
\* lexer drops whitespace and comments after the opening quote).
C1_PlainText ==
    (Finished /\ C1_Doc(doc)
       /\ \A i \in 2..Len(doc) :
            doc[i].val.text # <<>> /\ ~is_whitespace_or_eol(doc[i].val.text[1])
                                   /\ ~is_comment(doc[i].val.text[1]))
    => ReturnedExpected

\* C2: for a file [S] then K=V, without whitespace around the equals sign,
\* V a quoted string, a number or a bare identifier, the parse succeeds and
\* get_value on K returns V with the kind of V.
C2_RoundTrip ==
    (Finished /\ doc \in NoSpaceDocs) =>
       /\ pc = "returned"
       /\ get_value(result.roots, doc[2].name, doc[2].val.kind)
            = [status |-> "ok", value |-> Written(doc[2].val).value]

\* A member whose value is a bare identifier, alone or followed by a member.
C3_Doc(d) ==
    /\ Len(d) >= 2
    /\ d[1].kind = "header" /\ d[1].style = "closed"
    /\ d[2].kind = "member" /\ d[2].style = "spaced" /\ d[2].val.kind = "Identifier"
    /\ \A i \in 3..Len(d) : d[i].kind = "member"

\* C3: a member whose value is a bare identifier is accepted: the parse
\* succeeds, the section holds a leaf named by the key with the identifier
\* text, and a member that follows is parsed as its own leaf.
C3_BareIdentifierAccepted == (Finished /\ C3_Doc(doc)) => ReturnedExpected

\* C6: a file with a section header that has no closing bracket makes
\* parse() fail with a parse error: no tree is returned, nothing crashes.
C6_OpenHeaderRejected == (Finished /\ doc \in OpenHeaderDocs) => pc = "threw"

\* C10: for a well-formed file the root list holds one node per header, in
\* file order, headers of the same name giving distinct nodes, each node
\* holding exactly the members written between its header and the next.
C10_OneNodePerHeader == (Finished /\ doc \in RegularDocs) => ReturnedExpected

\* What the caller of parse() observed, as build_tree reports it.
StateOutcome ==
    [status |-> CASE pc = "returned" -> "ok" [] pc = "threw" -> "error" [] OTHER -> "crash",
     roots  |-> result.roots]

\* What parsing the file f can end with.
Outcomes(f) == {build_tree(f, ev, oob) : ev \in EosValues, oob \in OobReads}

InsertAt(f, i, ins) == SubSeq(f, 1, i - 1) \o ins \o SubSeq(f, i, Len(f))

RemoveAt(f, i) == SubSeq(f, 1, i - 1) \o SubSeq(f, i + 1, Len(f))

Punctuation == {"=", "[", "]"}

\* f with one more space or tab immediately before or after an equals sign
\* or a bracket.
WsInsertions(f) ==
    {InsertAt(f, i, <<c>>) :
        c \in {" ", "\t"},
        i \in {j \in 1..(Len(f) + 1) :
                 \/ j <= Len(f) /\ f[j] \in Punctuation
                 \/ j > 1 /\ f[j - 1] \in Punctuation}}

\* f with one space or tab removed from immediately before or after an
\* equals sign or a bracket.
WsRemovals(f) ==
    {RemoveAt(f, i) :
        i \in {j \in 1..Len(f) :
                 /\ is_whitespace(f[j])
                 /\ \/ j < Len(f) /\ f[j + 1] \in Punctuation
                    \/ j > 1 /\ f[j - 1] \in Punctuation}}

\* C4: for an input that parses, inserting or removing spaces or tabs
\* immediately around an equals sign or a bracket yields the same result.
C4_WhitespaceInsensitive ==
    (pc = "returned" /\ doc \in RegularDocs) =>
       \A w \in WsInsertions(file) \cup WsRemovals(file) : Outcomes(w) = {StateOutcome}

\* The file of d with ins written at a slot of line j: "start" (before the
\* first line), "header" (after the header), "key" (after the key of the
\* member) or "value" (after the value of the member).
RenderLineWith(l, slot, ins) ==
    CASE slot = "header" -> RenderLine(l) \o ins
      [] slot = "value"  -> RenderLine(l) \o ins
      [] slot = "key"    -> l.name \o ins \o <<" ", "=", " ">> \o RenderValue(l.val)
      [] OTHER           -> ins \o RenderLine(l)

RECURSIVE RenderWith(_, _, _, _)
RenderWith(d, j, slot, ins) ==
    IF Len(d) = 0 THEN ins
    ELSE LET first == IF j = 1 THEN RenderLineWith(d[1], slot, ins) ELSE RenderLine(d[1])
         IN  IF Len(d) = 1 THEN first
             ELSE first \o <<"\n">> \o RenderWith(Tail(d), j - 1, slot, ins)

Slots(d) ==
    {[j |-> 1, slot |-> "start"]}
      \cup {[j |-> j, slot |-> "header"] : j \in {i \in 1..Len(d) : d[i].kind = "header"}}
      \cup {[j |-> j, slot |-> sl] : j \in {i \in 1..Len(d) : d[i].kind = "member"},
                                     sl \in {"key", "value"}}

\* A comment to the end of the line at a slot, directly or after a space,
\* and the same file with the comment stripped.  At the end of a line the
\* comment ends with the line; elsewhere it brings its own line end.
CommentVariants(d) ==
    {[commented |-> RenderWith(d, s.j, s.slot,
                      sp \o <<"#", "c">> \o (IF s.slot \in {"header", "value"} THEN <<>> ELSE <<"\n">>)),
      stripped  |-> RenderWith(d, s.j, s.slot,
                      sp \o (IF s.slot \in {"header", "value"} THEN <<>> ELSE <<"\n">>))] :
        s \in Slots(d), sp \in {<<>>, <<" ">>}}

\* C5: a comment inserted before the first section, after a section header,
\* directly after a key or after a value yields the same result as the same
\* file with the comment stripped.
C5_CommentInsensitive ==
    (Finished /\ doc \in RegularDocs) =>
       \A v \in CommentVariants(doc) :
          /\ Outcomes(v.commented) = Outcomes(v.stripped)
          /\ v.stripped = file => Outcomes(v.commented) = {StateOutcome}

\* C7: with parse_async, when the thread is over the future is fulfilled,
\* with the value or with the error the parse raised, and the thread did
\* not terminate the process (stated for the files whose parse reads no
\* token past the end).
C7_AsyncErrorDelivered ==
    (call = "async" /\ doc \notin TruncatedDocs
       /\ pc \in {"thread_done", "returned", "terminated"}) =>
       (pc # "terminated" /\ future \in {"ready", "retrieved"})

\* The names of the leaves of a tree.
NamesIn(rs) ==
    UNION {{rs[n].children[i].name : i \in 1..Len(rs[n].children)} : n \in 1..Len(rs)}

\* C8: for every parse result and every name x, has_member(x) is false if
\* and only if the lookup result[x] raises member-not-found.
C8_HasMemberIffLookup ==
    /\ result.status = "value" =>
         \A x \in NamesIn(result.roots) \cup QueryNames :
            (has_member(result.roots, x) = FALSE) <=> (lookup(result.roots, x).found = FALSE)
    /\ query.T # "none" => ((query.has_member = FALSE) <=> (query.lookup.found = FALSE))

\* A query for a name no leaf has, on a tree of two sections with leaves.
C8_Witness ==
    /\ query.T # "none"
    /\ query.has_member = FALSE /\ query.lookup.found = FALSE
    /\ Len(result.roots) = 2
    /\ \A n \in 1..2 : Len(result.roots[n].children) > 0

\* The leaves of a tree in file order.
RECURSIVE AllLeaves(_)
AllLeaves(rs) == IF Len(rs) = 0 THEN <<>> ELSE rs[1].children \o AllLeaves(Tail(rs))

\* The least index of a leaf named x, 0 when there is none.
FirstIndex(leaves, x) ==
    IF \E k \in 1..Len(leaves) : leaves[k].name = x
    THEN CHOOSE k \in 1..Len(leaves) :
           leaves[k].name = x /\ \A j \in 1..(k - 1) : leaves[j].name # x
    ELSE 0

FirstMatch(rs, x) ==
    LET k == FirstIndex(AllLeaves(rs), x)
    IN  IF k = 0 THEN NotFound ELSE Found(AllLeaves(rs)[k])

TypedFirstMatch(rs, x, T) ==
    LET m == FirstMatch(rs, x)
    IN  IF ~m.found THEN [status |-> "member_not_found", value |-> <<>>]
        ELSE IF m.leaf.container.type = T
        THEN [status |-> "ok", value |-> m.leaf.container.value]
        ELSE [status |-> "bad_variant_access", value |-> <<>>]

\* C9: result[name] and get_value<T>(name) resolve to the first leaf of
\* that name in file order; later leaves never override it, and
\* get_value<T> fails with a typed-access failure when the kind of that
\* first leaf is not T, even if a later leaf of the name has kind T.
C9_FirstMatch ==
    /\ result.status = "value" =>
         \A x \in NamesIn(result.roots) \cup QueryNames :
            /\ lookup(result.roots, x) = FirstMatch(result.roots, x)
            /\ \A T \in ValueTypes :
                 get_value(result.roots, x, T) = TypedFirstMatch(result.roots, x, T)
    /\ query.T # "none" =>
         /\ query.lookup = FirstMatch(result.roots, query.name)
         /\ query.get_value = TypedFirstMatch(result.roots, query.name, query.T)

\* get_value<T> failed on the kind of the first leaf while a leaf of a later
\* section has the name and the kind T.
C9_Witness ==
    /\ query.T # "none"
    /\ query.get_value.status = "bad_variant_access"
    /\ Len(result.roots) = 2
    /\ \E i \in 1..Len(result.roots[2].children) :
         /\ result.roots[2].children[i].name = query.name
         /\ result.roots[2].children[i].container.type = query.T

\* A valid file: the synchronous parse() of it returns a tree.
Valid(f) == \A o \in Outcomes(f) : o.status = "ok"

\* C11: for a valid file, parse_async() followed by get() on the future
\* delivers a result equal, section by section and leaf by leaf, to the one
\* the synchronous parse() of the file returns; the call does not end
\* otherwise.
C11_AsyncEqualsSync ==
    (/\ call = "async"
     /\ pc \in {"returned", "threw", "failed", "crashed", "terminated"}
     /\ Valid(file)) =>
       /\ pc = "returned"
       /\ result.status = "value"
       /\ Outcomes(file) = {[status |-> "ok", roots |-> result.roots]}

\* get() delivered a tree of two sections with leaves.
C11_Witness ==
    /\ call = "async" /\ pc = "returned" /\ future = "retrieved"
    /\ Len(result.roots) = 2
    /\ \A n \in 1..2 : Len(result.roots[n].children) > 0

\* C12: every failure of the parser, whether found at the section header,
\* at the Identifier or the Equals of a member or inside parse_value, leaves
\* parse_section as the std::runtime_error of parse_section and reaches the
\* caller of parse() as that error: no other exception type escapes, and the
\* caller gets no tree, also when sections or leaves had been built.
C12_UniformParseError ==
    /\ pc = "failed" => exception = "runtime_error"
    /\ pc = "threw"  => /\ exception = "runtime_error"
                        /\ result = [status |-> "runtime_error", roots |-> <<>>]
                        /\ history = <<result>>
    /\ pc \in {"parse_section", "parse_member", "built", "returned"} =>
          exception = "none"

\* parse() threw on a value that is neither a quote nor a number, found by
\* parse_value after a first leaf had been put into the section's node.
C12_Witness ==
    /\ pc = "threw" /\ result.status = "runtime_error"
    /\ Len(node.children) > 0
    /\ Len(tokens) >= 3
    /\ tokens[1].type = "Identifier" /\ tokens[2].type = "Equals"
    /\ tokens[3].type \notin {"Number", "DoubleQuote", "SingleQuote"}

\* The files that end in the middle of a token: inside a quoted string, or
\* right after the opening quote of a value.
MidTokenDocs ==
    OpenStringDocs
      \cup {d \in TruncatedDocs : d[1].kind = "header" /\ d[Len(d)].name # <<"[">>}

\* C13: when the input ends in the middle of a token, tokenization aborts
\* with a lexical error: the call never gets past read_all to the parser,
\* no token sequence is handed over and no leaf is built.
C13_LexErrorOnTruncatedInput ==
    (doc \in MidTokenDocs /\ pc \notin {"idle", "build_tree", "read_all"}) =>
       /\ pc = "threw"
       /\ result.status = "lex_error"
       /\ tokens = <<>> /\ roots = <<>>

\* The token sequence of a call that has the stream to itself.
Sequential(f) == {tokenize(f, ev) : ev \in EosValues}

\* C14: two calls race on the one stream of the lexer.  A call whose
\* read_all met no other call between its opening and its closing of the
\* stream yields the sequential token sequence and leaves the stream
\* closed; a call that overlapped with another may yield a different one
\* (C14_Witness).
C14_RaceOnStream ==
    /\ \A t \in {1, 2} :
         (race.th[t].pc = "done" /\ ~race.th[t].overlapped) =>
            race.th[t].tokens \in Sequential(file)
    /\ (\A t \in {1, 2} : race.th[t].pc \in {"idle", "done"}) => ~race.open

\* Both calls are over, they overlapped, and one of them came back with a
\* token sequence that is not the sequential one although the other one
\* did.
C14_Witness ==
    /\ race.th[1].pc = "done" /\ race.th[2].pc = "done"
    /\ race.th[1].overlapped /\ race.th[2].overlapped
    /\ race.th[1].tokens \notin Sequential(file)
    /\ race.th[2].tokens \in Sequential(file)
    /\ Sequential(file) # {<<>>}

\* C15: a tokenization opens the stream, consumes it to the end of input
\* and closes it before it returns, so that the stream is open only while
\* read_all runs; and after any number of calls made one after the other,
\* parse() or parse_async() with get(), every call that completed delivered
\* what the first one delivered.
C15_StreamReusable ==
    /\ stream_open => pc = "read_all"
    /\ pc \notin {"idle", "build_tree", "read_all"} => AtEos(file, fiter)
    /\ \A k \in 1..Len(history) : history[k] = history[1]

\* The third call on a parser, made with parse_async, delivered a tree with
\* a leaf, the stream is closed again.
C15_Witness ==
    /\ Len(history) = 3
    /\ call = "async" /\ pc = "returned"
    /\ ~stream_open
    /\ result.status = "value"
    /\ \E n \in 1..Len(result.roots) : Len(result.roots[n].children) > 0

\* C16: an empty input, and an input made only of whitespace, line ends and
\* comments, gives an empty token sequence and a result with no section, on
\* which has_member is false for every name; no error is raised.
C16_BlankInputEmptyResult ==
    (doc = <<>> \/ doc \in BlankDocs) =>
       /\ tokens = <<>>
       /\ pc \notin {"parse_member", "failed", "threw", "crashed"}
       /\ pc = "returned" =>
             /\ result = [status |-> "value", roots |-> <<>>]
             /\ \A x \in QueryNames \cup SectionNames : ~has_member(result.roots, x)
       /\ query.T # "none" => (~query.has_member /\ ~query.lookup.found)

\* has_member was asked on the result of a file of whitespace and comments.
C16_Witness ==
    /\ doc \in BlankDocs
    /\ \E i \in 1..Len(file) : is_comment(file[i])
    /\ \E i \in 1..Len(file) : is_whitespace_or_eol(file[i])
    /\ pc = "returned" /\ result.status = "value"
    /\ query.T # "none" /\ ~query.has_member

\* C17: in every token sequence the lexer produces, for any input, the
\* first token is LBrace, every LBrace is followed by a Section, every
\* Section by an RBrace and every Identifier by an Equals, unless the
\* sequence ends right after it.
C17_TokenOrder ==
    /\ Len(tokens) > 0 => tokens[1].type = "LBrace"
    /\ \A k \in 1..(Len(tokens) - 1) :
         /\ tokens[k].type = "LBrace"     => tokens[k + 1].type = "Section"
         /\ tokens[k].type = "Section"    => tokens[k + 1].type = "RBrace"
         /\ tokens[k].type = "Identifier" => tokens[k + 1].type = "Equals"

\* read_all returned a sequence with a second LBrace, a Section after it,
\* and an Identifier with its Equals.
C17_Witness ==
    /\ pc = "parse_section"
    /\ \E k \in 2..(Len(tokens) - 1) :
         tokens[k].type = "LBrace" /\ tokens[k + 1].type = "Section"
    /\ \E k \in 1..(Len(tokens) - 1) :
         tokens[k].type = "Identifier" /\ tokens[k + 1].type = "Equals"

\* The character a quote token stands for.
QuoteOf(t) == IF t = "DoubleQuote" THEN "\"" ELSE "'"

\* C18: in every token sequence the lexer produces, a String token comes
\* right after a quote token and, unless the input ends with the string,
\* right before a quote token of the same kind; its payload has no
\* character equal to that quote.
C18_StringBetweenQuotes ==
    /\ \A k \in 1..Len(tokens) :
         tokens[k].type = "String" =>
            /\ k > 1
            /\ tokens[k - 1].type \in {"DoubleQuote", "SingleQuote"}
            /\ k < Len(tokens) => tokens[k + 1].type = tokens[k - 1].type
            /\ \A j \in 1..Len(tokens[k].value) :
                 tokens[k].value[j] # QuoteOf(tokens[k - 1].type)
    /\ (/\ pc = "parse_section"
        /\ Len(tokens) > 0
        /\ tokens[Len(tokens)].type = "String")
       => LET v == tokens[Len(tokens)].value
          IN  SubSeq(file, Len(file) - Len(v) + 1, Len(file)) = v

\* read_all returned a String that holds the other quote character and
\* stands between two quote tokens of one kind.
C18_Witness ==
    /\ pc = "parse_section"
    /\ \E k \in 2..(Len(tokens) - 1) :
         /\ tokens[k].type = "String"
         /\ tokens[k - 1].type = "DoubleQuote"
         /\ tokens[k + 1].type = "DoubleQuote"
         /\ \E j \in 1..Len(tokens[k].value) : tokens[k].value[j] = "'"

\* The maximal run of digits of f from position i on.
DigitRun(f, i) ==
    LET n == CHOOSE m \in 0..(Len(f) + 1 - i) :
                 /\ \A k \in i..(i + m - 1) : is_numeric(f[k])
                 /\ (i + m <= Len(f)) => ~is_numeric(f[i + m])
    IN  SubSeq(f, i, i + n - 1)

\* The text of the number literal of f at position i.
NumberLiteral(f, i) ==
    LET j == i + Len(DigitRun(f, i))
    IN  IF j <= Len(f) /\ f[j] = "."
        THEN DigitRun(f, i) \o <<".">> \o DigitRun(f, j + 1)
        ELSE DigitRun(f, i)

\* C20: after an Equals, the lexer chooses Number exactly when the next
\* character that is not skipped is a digit; the text read_number hands to
\* the conversion is then the maximal run of digits, followed, only when
\* the character after the run is '.', by '.' and the next maximal run of
\* digits, and the Number token pushed is the conversion of that text.
C20_NumberText ==
    /\ (pc = "read_all" /\ token = "Number") =>
          /\ ~AtEos(file, fiter) /\ is_numeric(file[fiter])
          /\ DigitRun(file, fiter) # <<>>
          /\ tokens # <<>> /\ tokens[Len(tokens)].type = "Equals"
          /\ \A ev \in EosValues :
               /\ read_number(file, fiter, ev).name = NumberLiteral(file, fiter)
               /\ LET ls == LexIter(file, [token |-> token, fiter |-> fiter,
                                           delimiter |-> delimiter,
                                           tokens |-> tokens], ev)
                  IN  ls.tokens = Append(tokens, IniNumber(stof(NumberLiteral(file, fiter))))
    /\ (/\ pc = "read_all" /\ token # "EndOfFile"
        /\ tokens # <<>> /\ tokens[Len(tokens)].type = "Equals")
       => (token = "Number" <=> is_numeric(file[fiter]))

\* The lexer pushed the Number of a literal N.F with two digits before the
\* '.' and a digit after it.
C20_Witness ==
    /\ tokens # <<>>
    /\ tokens[Len(tokens)].type = "Number"
    /\ \E k \in 3..(Len(tokens[Len(tokens)].value) - 1) :
         tokens[Len(tokens)].value[k] = "."

\* The loop of read_all is at its head, before an iteration.
AtLoopHead == pc = "read_all" /\ token # "Null"

\* The kinds whose iteration may leave the position where it was: the
\* initial kind, and the names read up to a delimiter.
MayStay(t) == t \in {"Null", "Section", "String", "Identifier"}

\* What read_all has left to do: the characters left to read, counted
\* three times, and the steps that read none.
Left(p, t, i) ==
    3 * (Len(file) + 1 - i)
      + CASE p = "build_tree" -> 3
          [] p = "read_all"   -> IF MayStay(t) THEN 2 ELSE 1
          [] OTHER            -> 0

Variant == Left(pc, token, fiter)

\* C19: on every input read_all returns: until it has, it is at a step
\* that can be taken, and every step, an iteration of the loop among them,
\* makes Variant, a natural number, smaller.  The loop goes
\* on while next_token reports a token and stops when it reports the end
\* of input, which it does exactly at the end of the input; the position
\* never moves back; and an iteration that leaves the position where it
\* was is followed by one that moves it, or by none.
C19_LexerTerminates ==
    /\ [](pc \in {"build_tree", "read_all", "parse_section"})
    /\ [](Variant \in Nat)
    /\ []((pc = "read_all" /\ token # "EndOfFile")
            => \A ev \in EosValues :
                  LET ls == LexIter(file, [token |-> token, fiter |-> fiter,
                                          delimiter |-> delimiter,
                                          tokens |-> tokens], ev)
                  IN  Left("read_all", ls.token, ls.fiter) < Variant)
    /\ [][Variant' < Variant]_vars
    /\ [](AtLoopHead => (token = "EndOfFile" <=> AtEos(file, fiter)))
    /\ [](pc = "parse_section" => (token = "EndOfFile" /\ AtEos(file, fiter)))
    /\ [][(pc = "read_all" /\ token # "EndOfFile") => pc' = "read_all"]_vars
    /\ [][(pc = "read_all" /\ token = "EndOfFile")
            => (pc' = "parse_section" /\ tokens' = tokens /\ fiter' = fiter)]_vars
    /\ [][fiter' >= fiter /\ fiter' <= Len(file) + 1]_vars
    /\ [][(/\ pc = "read_all" /\ pc' = "read_all"
           /\ token # "EndOfFile" /\ token' # "EndOfFile"
           /\ fiter' = fiter)
            => \A ev \in EosValues :
                  LexIter(file, [token |-> token', fiter |-> fiter',
                                 delimiter |-> delimiter',
                                 tokens |-> tokens'], ev).fiter > fiter']_vars

\* read_all returned after an iteration that read a Section of no character
\* and one that read a String of no character.
C19_Witness ==
    /\ pc = "parse_section"
    /\ \E k \in 1..Len(tokens) : tokens[k] = IniSection(<<>>)
    /\ \E k \in 1..Len(tokens) : tokens[k] = IniString(<<>>)

\* The positions of the deque parse_section reads: the front, and the token
\* after it once the front is an LBrace.
parse_section_reads(toks) ==
    IF Len(toks) = 0 THEN {}
    ELSE IF toks[1].type # "LBrace" THEN {1}
    ELSE {1, 2}

\* The positions parse_member and the parse_value it calls read: the
\* identifier, the equals, the value, and the token after the value once
\* the value is a quote.
parse_member_reads(toks) ==
    IF Len(toks) < 3 THEN {}
    ELSE IF index(toks[1]) = 5 \/ toks[1].type # "Identifier" THEN {1}
    ELSE IF toks[2].type # "Equals" THEN {1, 2}
    ELSE IF index(toks[3]) >= 8 THEN {1, 2, 3, 4}
    ELSE {1, 2, 3}

\* C21: for every token sequence the lexer produces, every position the
\* parser reads holds a token: parse_section reads the second token only
\* when there is one, parse_value reads the token after a quote only when
\* there is one, and no call ends in a faulting read.
C21_NoReadPastEnd ==
    /\ pc = "parse_section" =>
          \A k \in parse_section_reads(tokens) : k <= Len(tokens)
    /\ pc = "parse_member" =>
          \A k \in parse_member_reads(tokens) : k <= Len(tokens)
    /\ pc # "crashed"

\* The kinds read_all reads with fiter++ alone.
PunctuationTokens == {"LBrace", "RBrace", "Equals", "SingleQuote", "DoubleQuote"}

\* The character each of them is named after.
PunctuationChar(t) ==
    CASE t = "LBrace"      -> "["
      [] t = "RBrace"      -> "]"
      [] t = "Equals"      -> "="
      [] t = "SingleQuote" -> "'"
      [] t = "DoubleQuote" -> "\""

\* C22: whenever the loop of read_all is about to push a punctuation token,
\* the character at the position, the one fiter++ consumes for it, is that
\* punctuation character.
C22_PunctuationConsumesItsChar ==
    (pc = "read_all" /\ token \in PunctuationTokens) =>
       /\ ~AtEos(file, fiter)
       /\ file[fiter] = PunctuationChar(token)

\* f with every quote character replaced by q.
ToQuote(f, q) ==
    [i \in 1..Len(f) |-> IF f[i] \in {"'", "\""} THEN q ELSE f[i]]

\* toks with every quote token replaced by the quote token of kind t.
ToQuoteKind(toks, t) ==
    [i \in 1..Len(toks) |->
        IF toks[i].type \in {"SingleQuote", "DoubleQuote"} THEN Tok(t, <<>>)
        ELSE toks[i]]

\* C23: for a well-formed file, whose strings hold neither quote character,
\* writing every quote as " or every quote as ' changes only the kind of
\* the quote tokens in what the lexer returns, and leaves what parse()
\* ends with unchanged.
C23_QuoteSymmetry ==
    doc \in RegularDocs =>
       /\ (pc = "parse_section" /\ roots = <<>>) =>
             \A ev \in EosValues :
                /\ tokenize(ToQuote(file, "\""), ev) = ToQuoteKind(tokens, "DoubleQuote")
                /\ tokenize(ToQuote(file, "'"), ev) = ToQuoteKind(tokens, "SingleQuote")
       /\ Finished =>
             /\ Outcomes(ToQuote(file, "\"")) = {StateOutcome}
             /\ Outcomes(ToQuote(file, "'")) = {StateOutcome}
====
